---- MODULE Spec2Model ----
(***************************************************************************)
(* Branch-protection tooling of pcds-python-migration-tools.               *)
(*                                                                         *)
(*   update_branch_protection.py  : gh_api_graphql, BranchProtection,      *)
(*                                  Repository, main(owner, repo_name)     *)
(*   update_branch_protections.py : templates, ProtectionGroup,            *)
(*                                  parse_repo_list, main(..., write)      *)
(*                                                                         *)
(* Three specifications share the variables:                               *)
(*   Spec     the two command-line programs, one transport call per step   *)
(*   SpecBP   BranchProtection.create / delete on arbitrary instances      *)
(*   SpecGQL  the argument encoding of gh_api_graphql                      *)
(***************************************************************************)
EXTENDS Integers, Sequences, FiniteSets, TLC

VARIABLES
    mode,        \* which program runs: "bulk", "cli" (update_branch_protections.main), "settings" (update_branch_protection.main)
    write,       \* the --write flag
    repo_data,   \* ProtectionGroups parsed and not yet applied
    row,         \* number of groups main has taken from repo_data
    group,       \* the ProtectionGroup whose apply_protections is running (self)
    repo,        \* the Repository returned by Repository.from_name
    pc,          \* position of the program
    prots,       \* rules returned by from_repository and not yet visited by the delete loop
    rule_idx,    \* position of the loop over rule_names
    calls,       \* gh_api_graphql calls issued since the current pass began
    out,         \* lines printed since the current pass began
    exc,         \* the exception that ended the run, "none" while running
    RULE_MAP,    \* the module-level templates master_protect / gh_pages_prot / all_prot
    bp,          \* SpecBP: the BranchProtection instance a method is called on
    result,      \* SpecBP: the value the method returned
    query,       \* SpecGQL: the query text of one gh_api_graphql call
    params,      \* SpecGQL: its named parameters, in keyword order
    args         \* SpecGQL: the argument list handed to run_gh

bpvars == <<bp, result>>

gqlvars == <<query, params, args>>

vars == <<mode, write, repo_data, row, group, repo, pc, prots, rule_idx,
          calls, out, exc, RULE_MAP, bpvars, gqlvars>>

-----------------------------------------------------------------------------
(* Bounds *)

MaxRows == 2        \* rows read from the CSV file

MaxExisting == 2    \* rules already present on a repository

-----------------------------------------------------------------------------
(* update_branch_protection.py: values and records *)

\* Python values that reach a subscript or the argument encoder carry their type.
Str(s) == [t |-> "str", v |-> s]

PyInt(n) == [t |-> "int", v |-> n]

PyBool(b) == [t |-> "bool", v |-> b]

PyList(l) == [t |-> "list", v |-> l]

\* the flat list of status-check names
default_required_status_checks ==
    << "standard / Conda (3.10) / Python 3.10: conda",
       "standard / Conda (3.9, true) / Python 3.9: conda",
       "standard / Documentation / Python 3.9: documentation building",
       "standard / Pip (3.10) / Python 3.10: pip",
       "standard / Pip (3.9, true) / Python 3.9: pip",
       "standard / pre-commit checks / pre-commit" >>

\* list.__getitem__ as `default_required_status_checks[key]` evaluates it:
\* an int in range selects an item, an int out of range is an IndexError, and
\* any key that is not an int is a TypeError.
list_getitem(lst, key) ==
    IF key.t = "int"
    THEN IF key.v \in 0..(Len(lst) - 1)
         THEN [exc |-> "none", value |-> lst[key.v + 1]]
         ELSE [exc |-> "IndexError", value |-> <<>>]
    ELSE [exc |-> "TypeError", value |-> <<>>]

Actor == [login |-> ""]

\* BranchProtection(**overrides): the dataclass defaults
BranchProtection ==
    [ creator |-> Actor,
      id |-> "",
      allows_deletions |-> FALSE,
      allows_force_pushes |-> FALSE,
      is_admin_enforced |-> FALSE,
      required_status_checks |-> default_required_status_checks,
      required_approving_review_count |-> 1,
      requires_approving_reviews |-> TRUE,
      requires_code_owner_reviews |-> FALSE,
      requires_status_checks |-> TRUE,
      restricts_pushes |-> TRUE,
      restricts_review_dismissals |-> FALSE,
      dismisses_stale_reviews |-> FALSE,
      pattern |-> "master" ]

\* Texts that reach the argument list are sequences of characters.
\* str.replace("'", r"\'"): a backslash goes in front of every single quote
RECURSIVE escape_quotes(_)
\* faulty variant: the text goes out unescaped
escape_quotes_missing(text) == text

escape_quotes(text) ==
    IF text = <<>> THEN <<>>
    ELSE IF Head(text) = "'"
         THEN <<"\\", "'">> \o escape_quotes(Tail(text))
         ELSE <<Head(text)>> \o escape_quotes(Tail(text))

Digit(d) ==
    CASE d = 0 -> "0" [] d = 1 -> "1" [] d = 2 -> "2" [] d = 3 -> "3" [] d = 4 -> "4"
      [] d = 5 -> "5" [] d = 6 -> "6" [] d = 7 -> "7" [] d = 8 -> "8" [] d = 9 -> "9"

RECURSIVE nat_repr(_)
nat_repr(n) ==
    IF n < 10 THEN <<Digit(n)>> ELSE nat_repr(n \div 10) \o <<Digit(n % 10)>>

\* repr() of an int, the `{value!r}` of the typed field
int_repr(n) == IF n < 0 THEN <<"-">> \o nat_repr(0 - n) ELSE nat_repr(n)

\* find_params: the query first, then every named parameter in keyword order,
\* a list expanded into one `name[]` entry per item
RECURSIVE expand_list(_, _)
expand_list(name, items) ==
    IF items = <<>> THEN <<>>
    ELSE <<[name |-> name \o <<"[", "]">>, value |-> Head(items)]>>
            \o expand_list(name, Tail(items))

RECURSIVE expand_params(_)
expand_params(ps) ==
    IF ps = <<>> THEN <<>>
    ELSE (IF Head(ps).value.t = "list"
          THEN expand_list(Head(ps).name, Head(ps).value.v)
          ELSE <<Head(ps)>>)
            \o expand_params(Tail(ps))

find_params(q, ps) ==
    <<[name |-> <<"q", "u", "e", "r", "y">>, value |-> Str(q)]>> \o expand_params(ps)

\* the body of the loop over find_params(): the flag and the field text that
\* args.extend([...]) appends for one (name, value)
encode_field(name, value) ==
    IF value.t = "str"
    THEN [flag |-> "-f", field |-> name \o <<"=">> \o escape_quotes(value.v)]
    ELSE IF value.t = "bool"
    THEN [flag |-> "-F",
          field |-> name \o <<"=">> \o (IF value.v THEN <<"t", "r", "u", "e">>
                                          ELSE <<"f", "a", "l", "s", "e">>)]
    ELSE [flag |-> "-F", field |-> name \o <<"=">> \o int_repr(value.v)]

\* gh_api_graphql: the fields it hands to run_gh after "api graphql --hostname h"
gh_api_graphql_args(q, ps) ==
    LET found == find_params(q, ps)
    IN [i \in 1..Len(found) |-> encode_field(found[i].name, found[i].value)]

\* one call of gh_api_graphql: the operation name and the other named parameters
GqlCall(op, kw) == [operationName |-> op, kw |-> kw]

\* Repository.owner / Repository.repo: the two halves of nameWithOwner
Repository_owner(r) == r.full_name[1]

Repository_repo(r) == r.full_name[2]

\* Repository.from_name: the query it sends
from_name_call(owner, name) ==
    GqlCall("showRepositoryInfo", [owner |-> owner, repo |-> name])

\* Repository.from_name: the Repository deserialized from the answer
from_name_result(owner, name) ==
    [id |-> "REPO_ID", full_name |-> <<owner, name>>]

\* Repository.create_environment: the mutation it sends
create_environment_call(r, name) ==
    GqlCall("createEnvironment", [repositoryId |-> r.id, name |-> name])

\* BranchProtection.from_repository: the query it sends
from_repository_call(r) ==
    GqlCall("showBranchProtection",
            [owner |-> Repository_owner(r), repo |-> Repository_repo(r)])

\* BranchProtection.create: the mutation it sends
create_call(self, r) ==
    GqlCall("addBranchProtection",
        [ repositoryId |-> r.id,
          requiredStatusChecks |-> self.required_status_checks,
          allowsDeletions |-> self.allows_deletions,
          allowsForcePushes |-> self.allows_force_pushes,
          dismissesStaleReviews |-> self.dismisses_stale_reviews,
          isAdminEnforced |-> self.is_admin_enforced,
          requiresApprovingReviews |-> self.requires_approving_reviews,
          requiredApprovingReviewCount |-> self.required_approving_review_count,
          requiresCodeOwnerReviews |-> self.requires_code_owner_reviews,
          requiresStatusChecks |-> self.requires_status_checks,
          restrictsReviewDismissals |-> self.restricts_review_dismissals,
          branchPattern |-> self.pattern ])

\* BranchProtection.create: the realized rule deserialized from the answer, a
\* new instance; the server assigns the id and the creator
create_result(self, new_id) ==
    [self EXCEPT !.id = new_id, !.creator = [login |-> "gh-user"]]

\* faulty variant: create realizes the instance it was called on, in place
create_self_mutated(self, new_id) == create_result(self, new_id)

\* BranchProtection.create: the instance it was called on, after the call
\* (create assigns no attribute of self)
create_self(self, new_id) == self

\* BranchProtection.delete: the mutation it sends
delete_call(self) ==
    GqlCall("deleteBranchProtection", [ruleId |-> self.id])

\* the rules a repository can already carry, as from_repository deserializes them
ExistingRules(n) ==
    [i \in 1..n |->
        [BranchProtection EXCEPT !.id = IF i = 1 THEN "BPR_1"
                                        ELSE IF i = 2 THEN "BPR_2" ELSE "BPR_n",
                                 !.creator = [login |-> "gh-user"]]]

-----------------------------------------------------------------------------
(* update_branch_protections.py: templates and ProtectionGroup *)

master_protect == BranchProtection

gh_pages_prot ==
    [BranchProtection EXCEPT !.pattern = "gh-pages",
                             !.allows_force_pushes = TRUE,
                             !.dismisses_stale_reviews = FALSE,
                             !.required_status_checks = <<>>,
                             !.requires_status_checks = FALSE,
                             !.required_approving_review_count = 0,
                             !.requires_approving_reviews = FALSE]

all_prot ==
    [BranchProtection EXCEPT !.pattern = "*",
                             !.required_status_checks = <<>>,
                             !.dismisses_stale_reviews = FALSE,
                             !.requires_status_checks = FALSE,
                             !.required_approving_review_count = 0,
                             !.requires_approving_reviews = FALSE,
                             !.allows_deletions = TRUE]

\* ProtectionGroup.RULE_MAP at import time
RULE_MAP_init ==
    [master |-> master_protect, gh_pages |-> gh_pages_prot, default |-> all_prot]

\* str.lower() on the toggle texts the model feeds in
ToggleTexts == {"yes", "no", "true", "Y", ""}

str_lower(val) ==
    IF val = "Y" THEN "y" ELSE val

str_to_bool(val) == str_lower(val) \in {"y", "yes", "true"}

CHECK_NAME_MAP ==
    [t \in {"Python Library", "Python Dev", "PLC", "TwinCAT Library", "Backup",
            "Other", "EPICS IOC", "Exempt", "External", "EPICS module"} |->
        IF t = "Python Library" THEN "python"
        ELSE IF t \in {"PLC", "TwinCAT Library"} THEN "twincat"
        ELSE "none"]

\* dict.get(key, default)
dict_get(d, key, default) == IF key \in DOMAIN d THEN d[key] ELSE default

\* the dataclass fields other than owner, repo_name, repo_type, in field order
rule_names == <<"master", "gh_pages", "default">>

Toggle(g, name) ==
    IF name = "master" THEN g.master
    ELSE IF name = "gh_pages" THEN g.gh_pages
    ELSE g.default

NoGroup == [owner |-> "", repo_name |-> "", repo_type |-> "",
            master |-> FALSE, gh_pages |-> FALSE, default |-> FALSE]

NoRepo == [id |-> "", full_name |-> <<"", "">>]

RequiredColumns == {"owner", "repo_name", "repo_type", "master", "gh_pages", "default"}

\* the first flag column, in field order, that the row lacks ("" when none)
FirstMissingFlag(source) ==
    IF "master" \notin DOMAIN source THEN "master"
    ELSE IF "gh_pages" \notin DOMAIN source THEN "gh_pages"
    ELSE IF "default" \notin DOMAIN source THEN "default"
    ELSE ""

\* ProtectionGroup.from_dict: the exception it ends with, what it printed, and
\* the group it returned. The three flags are looked up first, inside the
\* try/except KeyError that prints; owner, repo_name and repo_type are looked up
\* afterwards, outside it. Every key of a row holds a string here (rows shorter
\* than the header, which DictReader pads with None, are not fed in).
from_dict(source) ==
    IF FirstMissingFlag(source) # ""
    THEN [exc |-> "KeyError", out |-> <<"source data malformed, aborting">>,
          value |-> NoGroup]
    ELSE IF {"owner", "repo_name", "repo_type"} \subseteq DOMAIN source
    THEN [exc |-> "none", out |-> <<>>,
          value |-> [owner |-> source["owner"],
                     repo_name |-> source["repo_name"],
                     repo_type |-> source["repo_type"],
                     master |-> str_to_bool(source["master"]),
                     gh_pages |-> str_to_bool(source["gh_pages"]),
                     default |-> str_to_bool(source["default"])]]
    ELSE [exc |-> "KeyError", out |-> <<>>, value |-> NoGroup]


\* the loop body of `for prot in BranchProtection.from_repository(repo)`:
\* what one iteration prints and which calls it issues
\* faulty variant: the delete is not gated by the write flag
delete_loop_body_always(prot, w) ==
    [out |-> <<"Deleting branch protection setting">>, calls |-> <<delete_call(prot)>>]

delete_loop_body(prot, w) ==
    IF w
    THEN [out |-> <<"Deleting branch protection setting">>,
          calls |-> <<delete_call(prot)>>]
    ELSE [out |-> <<"(dry run) Deleting branch protection setting">>,
          calls |-> <<>>]

\* the rule one iteration of the loop over rule_names applies: a fresh
\* BranchProtection with the status checks of the repo type for 'master', the
\* shared template otherwise
select_rule(self, name, rule_map) ==
    IF name = "master"
    THEN LET check_name == dict_get(CHECK_NAME_MAP, self.repo_type, "none")
             check_list == list_getitem(default_required_status_checks, Str(check_name))
         IN IF check_list.exc # "none"
            THEN [exc |-> check_list.exc, rule |-> BranchProtection]
            ELSE [exc |-> "none",
                  rule |-> [BranchProtection EXCEPT
                                !.required_status_checks = check_list.value]]
    ELSE [exc |-> "none", rule |-> rule_map[name]]

\* the tail of that iteration: create the rule when writing
apply_rule(rule, r, w, name) ==
    IF w
    THEN [out |-> <<"-- rule applied">>, calls |-> <<create_call(rule, r)>>]
    ELSE [out |-> <<"-- rule not applied">>, calls |-> <<>>]

-----------------------------------------------------------------------------
(* Inputs *)

RepoTypes == {"Python Library", "Gizmo"}

Owners == {"pcdshub"}

RepoNames == {"r"}

\* the key sets of a csv.DictReader row: all the columns (with or without an
\* extra one), or one required column absent
Headers ==
    {RequiredColumns, RequiredColumns \cup {"notes"}}
        \cup {RequiredColumns \ {c} : c \in RequiredColumns}

ColumnValues(c) ==
    IF c = "owner" THEN Owners
    ELSE IF c = "repo_name" THEN RepoNames
    ELSE IF c = "repo_type" THEN RepoTypes
    ELSE IF c = "notes" THEN {"n/a"}
    ELSE ToggleTexts

Rows == UNION {{f \in [h -> UNION {ColumnValues(c) : c \in h}] :
                    \A c \in h : f[c] \in ColumnValues(c)} : h \in Headers}

-----------------------------------------------------------------------------
(* The programs *)

Init ==
    /\ mode \in {"bulk", "cli", "settings"}
    /\ write \in (IF mode = "settings" THEN {TRUE} ELSE BOOLEAN)
    /\ repo_data = <<>>
    /\ row = 0
    /\ group = NoGroup
    /\ repo = NoRepo
    /\ pc = "main"
    /\ prots = <<>>
    /\ rule_idx = 1
    /\ calls = <<>>
    /\ out = <<>>
    /\ exc = "none"
    /\ RULE_MAP = RULE_MAP_init
    /\ bp = BranchProtection
    /\ result = ""
    /\ query = <<>>
    /\ params = <<>>
    /\ args = <<>>

\* an uncaught exception: nothing catches it, the interpreter exits
\* faulty variant: the exception is caught around the pass and main goes on
Raise_swallowed(e) ==
    /\ pc' = "loop"
    /\ exc' = e

Raise(e) ==
    /\ pc' = "raised"
    /\ exc' = e

\* run_gh either returns the tool's output or raises CalledProcessError
TransportOutcomes == {"ok", "CalledProcessError"}

\* main of update_branch_protections.py with --repo-data-path
Main_Bulk ==
    /\ pc = "main" /\ mode = "bulk"
    /\ pc' = "parse"
    /\ UNCHANGED <<mode, write, repo_data, group, repo, prots, rule_idx, calls,
                   out, exc, RULE_MAP, row, bpvars, gqlvars>>

\* parse_repo_list: one row of the reader through ProtectionGroup.from_dict
parse_repo_list_row ==
    /\ pc = "parse"
    /\ Len(repo_data) < MaxRows
    /\ \E source \in Rows :
         LET r == from_dict(source) IN
           /\ out' = out \o r.out
           /\ IF r.exc = "none"
              THEN /\ repo_data' = Append(repo_data, r.value)
                   /\ UNCHANGED <<pc, exc>>
              ELSE /\ Raise(r.exc)
                   /\ UNCHANGED repo_data
    /\ UNCHANGED <<mode, write, group, repo, prots, rule_idx, calls, RULE_MAP,
                   row, bpvars, gqlvars>>

\* parse_repo_list: the reader is exhausted, the list is returned
parse_repo_list_return ==
    /\ pc = "parse"
    /\ pc' = "loop"
    /\ UNCHANGED <<mode, write, repo_data, group, repo, prots, rule_idx, calls,
                   out, exc, RULE_MAP, row, bpvars, gqlvars>>

\* main: `for protection_group in repo_data` takes the next group
Main_Loop ==
    /\ pc = "loop"
    /\ repo_data # <<>>
    /\ group' = Head(repo_data)
    /\ repo_data' = Tail(repo_data)
    /\ pc' = "from_name"
    /\ row' = row + 1
    /\ calls' = <<>>
    /\ out' = <<>>
    /\ UNCHANGED <<mode, write, repo, prots, rule_idx, exc, RULE_MAP,
                   bpvars, gqlvars>>

\* main returns
Main_Return ==
    /\ pc = "loop"
    /\ repo_data = <<>>
    /\ pc' = "done"
    /\ UNCHANGED <<mode, write, repo_data, group, repo, prots, rule_idx, calls,
                   out, exc, RULE_MAP, row, bpvars, gqlvars>>

\* main without --repo-data-path: one group from the command line
Main_Single ==
    /\ pc = "main" /\ mode = "cli"
    /\ \E owner \in Owners, repo_name \in RepoNames \cup {""}, repo_type \in RepoTypes,
          prot_master \in BOOLEAN, prot_pages \in BOOLEAN, prot_default \in BOOLEAN :
         IF repo_name = ""
         THEN /\ pc' = "done"
              /\ UNCHANGED group
         ELSE /\ group' = [owner |-> owner, repo_name |-> repo_name,
                           repo_type |-> repo_type, master |-> prot_master,
                           gh_pages |-> prot_pages, default |-> prot_default]
              /\ pc' = "from_name"
    /\ UNCHANGED <<mode, write, repo_data, repo, prots, rule_idx, calls,
                   out, exc, RULE_MAP, row, bpvars, gqlvars>>

\* apply_protections: Repository.from_name
AP_from_name ==
    /\ pc = "from_name"
    /\ calls' = Append(calls, from_name_call(group.owner, group.repo_name))
    /\ \E outcome \in TransportOutcomes :
         IF outcome = "ok"
         THEN /\ repo' = from_name_result(group.owner, group.repo_name)
              /\ out' = Append(out, "<repository info>")
              /\ pc' = "from_repository"
              /\ UNCHANGED exc
         ELSE /\ Raise(outcome)
              /\ UNCHANGED <<repo, out>>
    /\ UNCHANGED <<mode, write, repo_data, group, prots, rule_idx, RULE_MAP,
                   row, bpvars, gqlvars>>

\* apply_protections: BranchProtection.from_repository
AP_from_repository ==
    /\ pc = "from_repository"
    /\ calls' = Append(calls, from_repository_call(repo))
    /\ \E outcome \in TransportOutcomes :
         IF outcome = "ok"
         THEN /\ \E n \in 0..MaxExisting : prots' = ExistingRules(n)
              /\ pc' = "loops"
              /\ UNCHANGED exc
         ELSE /\ Raise(outcome)
              /\ UNCHANGED prots
    /\ rule_idx' = 1
    /\ UNCHANGED <<mode, write, repo_data, group, repo, out, RULE_MAP,
                   row, bpvars, gqlvars>>

\* apply_protections: one iteration of the delete loop
AP_delete ==
    /\ pc = "loops"
    /\ prots # <<>>
    /\ LET body == delete_loop_body(Head(prots), write) IN
         /\ out' = out \o body.out
         /\ calls' = calls \o body.calls
         /\ \E outcome \in (IF body.calls = <<>> THEN {"ok"} ELSE TransportOutcomes) :
              IF outcome = "ok"
              THEN /\ prots' = Tail(prots)
                   /\ UNCHANGED <<pc, exc>>
              ELSE /\ Raise(outcome)
                   /\ UNCHANGED prots
    /\ UNCHANGED <<mode, write, repo_data, group, repo, rule_idx, RULE_MAP,
                   row, bpvars, gqlvars>>

\* apply_protections: one iteration of the loop over rule_names
AP_rule ==
    /\ pc = "loops"
    /\ prots = <<>>
    /\ rule_idx <= Len(rule_names)
    /\ LET name == rule_names[rule_idx] IN
         IF ~Toggle(group, name)
         THEN /\ rule_idx' = rule_idx + 1
              /\ UNCHANGED <<pc, exc, out, calls, RULE_MAP>>
         ELSE LET sel == select_rule(group, name, RULE_MAP)
                  created == <<"created rule for repo">>
              IN IF sel.exc # "none"
                 THEN /\ Raise(sel.exc)
                      /\ out' = out \o created
                      /\ UNCHANGED <<rule_idx, calls, RULE_MAP>>
                 ELSE LET tail == apply_rule(sel.rule, repo, write, name) IN
                      /\ calls' = calls \o tail.calls
                      /\ \E outcome \in (IF tail.calls = <<>> THEN {"ok"}
                                         ELSE TransportOutcomes) :
                           IF outcome = "ok"
                           THEN /\ out' = out \o created \o tail.out
                                /\ rule_idx' = rule_idx + 1
                                /\ RULE_MAP' =
                                     IF write /\ name # "master"
                                     THEN [RULE_MAP EXCEPT
                                             ![name] = create_self(@, "BPR_new")]
                                     ELSE RULE_MAP
                                /\ UNCHANGED <<pc, exc>>
                           ELSE /\ Raise(outcome)
                                /\ out' = out \o created
                                /\ UNCHANGED <<rule_idx, RULE_MAP>>
    /\ UNCHANGED <<mode, write, repo_data, group, repo, prots,
                   row, bpvars, gqlvars>>

\* apply_protections returns to main
AP_return ==
    /\ pc = "loops"
    /\ prots = <<>>
    /\ rule_idx > Len(rule_names)
    /\ pc' = "loop"
    /\ UNCHANGED <<mode, write, repo_data, group, repo, prots, rule_idx, calls,
                   out, exc, RULE_MAP, row, bpvars, gqlvars>>


\* update_branch_protection.main: Repository.from_name
SM_from_name ==
    /\ pc = "main" /\ mode = "settings"
    /\ calls' = Append(calls, from_name_call("pcdshub", "pcds-ci-test-repo-python"))
    /\ \E outcome \in TransportOutcomes :
         IF outcome = "ok"
         THEN /\ repo' = from_name_result("pcdshub", "pcds-ci-test-repo-python")
              /\ out' = Append(out, "<repository info>")
              /\ pc' = "sm_env"
              /\ UNCHANGED exc
         ELSE /\ Raise(outcome)
              /\ UNCHANGED <<repo, out>>
    /\ UNCHANGED <<mode, write, repo_data, group, prots, rule_idx, RULE_MAP,
                   row, bpvars, gqlvars>>

\* faulty variant: main goes on to the listing without creating the environment
SM_create_environment_skipped ==
    /\ pc = "sm_env"
    /\ pc' = "sm_list"
    /\ UNCHANGED <<mode, write, repo_data, group, repo, prots, rule_idx, calls,
                   out, exc, RULE_MAP, row, bpvars, gqlvars>>

\* update_branch_protection.main: repo.create_environment("gh-pages")
SM_create_environment ==
    /\ pc = "sm_env"
    /\ out' = Append(out, "Creating environment gh-pages")
    /\ calls' = Append(calls, create_environment_call(repo, "gh-pages"))
    /\ \E outcome \in TransportOutcomes :
         IF outcome = "ok"
         THEN /\ pc' = "sm_list"
              /\ UNCHANGED exc
         ELSE Raise(outcome)
    /\ UNCHANGED <<mode, write, repo_data, group, repo, prots, rule_idx, RULE_MAP,
                   row, bpvars, gqlvars>>

\* update_branch_protection.main: BranchProtection.from_repository
SM_from_repository ==
    /\ pc = "sm_list"
    /\ out' = Append(out, "Repository:")
    /\ calls' = Append(calls, from_repository_call(repo))
    /\ \E outcome \in TransportOutcomes :
         IF outcome = "ok"
         THEN /\ \E n \in 0..MaxExisting : prots' = ExistingRules(n)
              /\ pc' = "sm_loop"
              /\ UNCHANGED exc
         ELSE /\ Raise(outcome)
              /\ UNCHANGED prots
    /\ UNCHANGED <<mode, write, repo_data, group, repo, rule_idx, RULE_MAP,
                   row, bpvars, gqlvars>>

\* update_branch_protection.main: one iteration of the delete loop
SM_delete ==
    /\ pc = "sm_loop"
    /\ prots # <<>>
    /\ out' = Append(out, "Deleting branch protection setting")
    /\ calls' = Append(calls, delete_call(Head(prots)))
    /\ \E outcome \in TransportOutcomes :
         IF outcome = "ok"
         THEN /\ prots' = Tail(prots)
              /\ UNCHANGED <<pc, exc>>
         ELSE /\ Raise(outcome)
              /\ UNCHANGED prots
    /\ UNCHANGED <<mode, write, repo_data, group, repo, rule_idx, RULE_MAP,
                   row, bpvars, gqlvars>>

\* update_branch_protection.main: BranchProtection().create(repo), then return
SM_create ==
    /\ pc = "sm_loop"
    /\ prots = <<>>
    /\ calls' = Append(calls, create_call(BranchProtection, repo))
    /\ \E outcome \in TransportOutcomes :
         IF outcome = "ok"
         THEN /\ out' = out \o <<"Created rule", "<new rule>">>
              /\ pc' = "done"
              /\ UNCHANGED exc
         ELSE /\ Raise(outcome)
              /\ UNCHANGED out
    /\ UNCHANGED <<mode, write, repo_data, group, repo, prots, rule_idx, RULE_MAP,
                   row, bpvars, gqlvars>>

Next ==
    \/ Main_Bulk
    \/ parse_repo_list_row
    \/ parse_repo_list_return
    \/ Main_Loop
    \/ Main_Return
    \/ Main_Single
    \/ AP_from_name
    \/ AP_from_repository
    \/ AP_delete
    \/ AP_rule
    \/ AP_return
    \/ SM_from_name
    \/ SM_create_environment
    \/ SM_from_repository
    \/ SM_delete
    \/ SM_create

Spec == Init /\ [][Next]_vars

-----------------------------------------------------------------------------
(* Properties of the two programs (Spec) *)

Range(seq) == {seq[i] : i \in 1..Len(seq)}

OpNames(cs) == [i \in 1..Len(cs) |-> cs[i].operationName]

\* the branch patterns of the add-rule mutations of the pass, in call order
RECURSIVE CreatedPatterns(_)
CreatedPatterns(cs) ==
    IF cs = <<>> THEN <<>>
    ELSE IF Head(cs).operationName = "addBranchProtection"
         THEN <<Head(cs).kw.branchPattern>> \o CreatedPatterns(Tail(cs))
         ELSE CreatedPatterns(Tail(cs))

InApplyProtections == mode \in {"bulk", "cli"} /\ group # NoGroup

\* C1: in dry-run mode a pass of apply_protections sends only the two read
\* queries (repository info, list of rules): no add-rule and no delete-rule
\* mutation reaches the transport, for any row and any set of existing rules.
C1_DryRunSendsOnlyReads ==
    (mode \in {"bulk", "cli"} /\ ~write) =>
        \A i \in 1..Len(calls) :
            calls[i].operationName \in {"showRepositoryInfo", "showBranchProtection"}

\* a dry-run pass of a second CSV row that walked over an existing rule and a
\* toggled rule, and returned
C1_Witness ==
    /\ mode = "bulk" /\ ~write /\ row = 2 /\ pc = "loop"
    /\ group.default /\ ~group.master
    /\ "(dry run) Deleting branch protection setting" \in Range(out)
    /\ "-- rule not applied" \in Range(out)
    /\ Len(calls) = 2

Rank(c) ==
    CASE c.operationName = "showRepositoryInfo" -> 1
      [] c.operationName = "createEnvironment" -> 2
      [] c.operationName = "showBranchProtection" -> 3
      [] c.operationName = "deleteBranchProtection" -> 4
      [] c.operationName = "addBranchProtection" -> 5

InRankOrder(cs) ==
    /\ \A i, j \in 1..Len(cs) : i < j => Rank(cs[i]) <= Rank(cs[j])
    /\ cs # <<>> => Rank(cs[1]) = 1

EnvironmentBeforeListing(cs) ==
    \A i \in 1..Len(cs) :
        cs[i].operationName = "showBranchProtection" =>
            /\ i > 1
            /\ cs[i - 1].operationName = "createEnvironment"
            /\ cs[i - 1].kw.name = "gh-pages"

C3_UnknownRepoTypeDoesNotRaise ==
    (InApplyProtections /\ group.master
        /\ group.repo_type \notin DOMAIN CHECK_NAME_MAP) =>
            exc \notin {"TypeError", "IndexError", "KeyError"}

\* the patterns of the toggled rules, in the order master, gh_pages, default
ToggledPatterns(g) ==
    (IF g.master THEN <<"master">> ELSE <<>>)
        \o (IF g.gh_pages THEN <<"gh-pages">> ELSE <<>>)
        \o (IF g.default THEN <<"*">> ELSE <<>>)

\* the pass of the current group ended, and not by a failure of the transport
PassEnded ==
    /\ InApplyProtections
    /\ \/ pc \in {"loop", "done"}
       \/ pc = "raised" /\ exc # "CalledProcessError"

\* C4: in write mode a pass creates exactly the rules whose toggle is true, in
\* the order master, gh-pages, '*'.
C4_CreatesExactlyTheToggledRules ==
    (PassEnded /\ write) => CreatedPatterns(calls) = ToggledPatterns(group)

\* C5: once an operation has failed, no further remote operation is issued and
\* no further CSV row is taken.
C5_NothingAfterAFailure ==
    [][exc # "none" => UNCHANGED <<calls, repo_data, row, group>>]_vars

\* the add-rule mutation of the first of several rows failed after a rule of
\* the repository had been deleted
C5_Witness ==
    /\ mode = "bulk" /\ write /\ exc = "CalledProcessError" /\ pc = "raised"
    /\ repo_data # <<>>
    /\ Len(calls) >= 4
    /\ calls[3].operationName = "deleteBranchProtection"
    /\ calls[Len(calls)].operationName = "addBranchProtection"

\* C9: the shared templates keep the values they were constructed with.
C9_TemplatesNeverModified ==
    RULE_MAP = RULE_MAP_init

\* the second row of a write run created its gh-pages and '*' rules from the
\* shared templates
C9_Witness ==
    /\ mode = "bulk" /\ write /\ row = 2 /\ pc = "loop"
    /\ CreatedPatterns(calls) = <<"gh-pages", "*">>

\* C10: a row that lacks a required column makes parsing raise, with the
\* diagnostic printed first, whichever column is missing.
C10_MissingColumnIsLogged ==
    (mode = "bulk" /\ exc = "KeyError") =>
        "source data malformed, aborting" \in Range(out)

-----------------------------------------------------------------------------
(* BranchProtection.create / delete on arbitrary instances (SpecBP) *)

\* instances a caller can hold: the three templates, and rules with or without
\* an id and with other settings
BPInstances ==
    {master_protect, gh_pages_prot, all_prot}
    \cup { [BranchProtection EXCEPT !.id = i, !.restricts_pushes = rp,
                                    !.allows_deletions = ad,
                                    !.required_approving_review_count = n,
                                    !.pattern = p,
                                    !.required_status_checks = c] :
             i \in {"", "BPR_1"}, rp \in BOOLEAN, ad \in BOOLEAN, n \in {0, 1},
             p \in {"master", "*"}, c \in {<<>>, default_required_status_checks} }

InitBP ==
    /\ mode = "library"
    /\ write = TRUE
    /\ repo_data = <<>>
    /\ row = 0
    /\ group = NoGroup
    /\ repo = from_name_result("pcdshub", "r")
    /\ pc = "bp_start"
    /\ prots = <<>>
    /\ rule_idx = 1
    /\ calls = <<>>
    /\ out = <<>>
    /\ exc = "none"
    /\ RULE_MAP = RULE_MAP_init
    /\ bp \in BPInstances
    /\ result = ""
    /\ query = <<>>
    /\ params = <<>>
    /\ args = <<>>

\* bp.create(repo)
BP_create ==
    /\ pc = "bp_start"
    /\ calls' = Append(calls, create_call(bp, repo))
    /\ \E outcome \in TransportOutcomes :
         IF outcome = "ok"
         THEN /\ result' = create_result(bp, "BPR_new")
              /\ bp' = create_self(bp, "BPR_new")
              /\ pc' = "bp_created"
              /\ UNCHANGED exc
         ELSE /\ Raise(outcome)
              /\ UNCHANGED <<bp, result>>
    /\ UNCHANGED <<mode, write, repo_data, row, group, repo, prots, rule_idx, out,
                   RULE_MAP, gqlvars>>

\* bp.delete()
BP_delete ==
    /\ pc = "bp_start"
    /\ calls' = Append(calls, delete_call(bp))
    /\ \E outcome \in TransportOutcomes :
         IF outcome = "ok"
         THEN /\ result' = "clientMutationId"
              /\ pc' = "bp_deleted"
              /\ UNCHANGED exc
         ELSE /\ Raise(outcome)
              /\ UNCHANGED result
    /\ UNCHANGED <<mode, write, repo_data, row, group, repo, prots, rule_idx, out,
                   RULE_MAP, bp, gqlvars>>

\* new_rule.delete() on the rule that create returned
BP_delete_created ==
    /\ pc = "bp_created"
    /\ calls' = Append(calls, delete_call(result))
    /\ \E outcome \in TransportOutcomes :
         IF outcome = "ok"
         THEN /\ result' = "clientMutationId"
              /\ pc' = "bp_deleted"
              /\ UNCHANGED exc
         ELSE /\ Raise(outcome)
              /\ UNCHANGED result
    /\ UNCHANGED <<mode, write, repo_data, row, group, repo, prots, rule_idx, out,
                   RULE_MAP, bp, gqlvars>>

NextBP == BP_create \/ BP_delete \/ BP_delete_created

SpecBP == InitBP /\ [][NextBP]_vars

\* C6: the add-rule mutation carries every configurable setting of the
\* instance, each with the instance's value.
C6_CreateSendsEverySetting ==
    \A i \in 1..Len(calls) :
        calls[i].operationName = "addBranchProtection" =>
            LET kw == calls[i].kw IN
              /\ {"branchPattern", "allowsDeletions", "allowsForcePushes",
                  "isAdminEnforced", "requiredStatusChecks",
                  "requiredApprovingReviewCount", "requiresApprovingReviews",
                  "requiresCodeOwnerReviews", "requiresStatusChecks",
                  "restrictsPushes", "restrictsReviewDismissals",
                  "dismissesStaleReviews"} \subseteq DOMAIN kw
              /\ kw.branchPattern = bp.pattern
              /\ kw.allowsDeletions = bp.allows_deletions
              /\ kw.allowsForcePushes = bp.allows_force_pushes
              /\ kw.isAdminEnforced = bp.is_admin_enforced
              /\ kw.requiredStatusChecks = bp.required_status_checks
              /\ kw.requiredApprovingReviewCount = bp.required_approving_review_count
              /\ kw.requiresApprovingReviews = bp.requires_approving_reviews
              /\ kw.requiresCodeOwnerReviews = bp.requires_code_owner_reviews
              /\ kw.requiresStatusChecks = bp.requires_status_checks
              /\ kw.restrictsPushes = bp.restricts_pushes
              /\ kw.restrictsReviewDismissals = bp.restricts_review_dismissals
              /\ kw.dismissesStaleReviews = bp.dismisses_stale_reviews

\* C7: a delete mutation is only ever sent with a non-empty ruleId; delete() on
\* an instance without an id sends nothing.
C7_DeleteNeedsAnId ==
    \A i \in 1..Len(calls) :
        calls[i].operationName = "deleteBranchProtection" => calls[i].kw.ruleId # ""

-----------------------------------------------------------------------------
(* The argument encoding of gh_api_graphql (SpecGQL) *)

MaxStrLen == 2      \* characters of a string parameter

MaxListLen == 2     \* items of a list parameter

Alphabet == {"a", "'"}

RECURSIVE TextsUpTo(_)
TextsUpTo(n) ==
    IF n = 0 THEN {<<>>}
    ELSE LET shorter == TextsUpTo(n - 1)
         IN shorter \cup {Append(t, c) : t \in shorter, c \in Alphabet}

ListItems == {Str(<<"a">>), Str(<<"'">>), PyBool(FALSE), PyInt(3)}

RECURSIVE ListsUpTo(_)
ListsUpTo(n) ==
    IF n = 0 THEN {<<>>}
    ELSE LET shorter == ListsUpTo(n - 1)
         IN shorter \cup {Append(l, x) : l \in shorter, x \in ListItems}

GqlValues ==
    {Str(t) : t \in TextsUpTo(MaxStrLen)}
        \cup {PyBool(b) : b \in BOOLEAN}
        \cup {PyInt(n) : n \in {0, 10, -7}}
        \cup {PyList(l) : l \in ListsUpTo(MaxListLen)}

\* keyword arguments: distinct names, in the order the caller wrote them
GqlParamSets ==
    {<<>>}
        \cup {<<[name |-> <<"x">>, value |-> v]>> : v \in GqlValues}
        \cup {<<[name |-> n1, value |-> v1], [name |-> n2, value |-> v2]>> :
                n1 \in {<<"x">>}, n2 \in {<<"y", "s">>},
                v1 \in GqlValues, v2 \in GqlValues}

InitGQL ==
    /\ mode = "library"
    /\ write = TRUE
    /\ repo_data = <<>>
    /\ row = 0
    /\ group = NoGroup
    /\ repo = NoRepo
    /\ pc = "gql_start"
    /\ prots = <<>>
    /\ rule_idx = 1
    /\ calls = <<>>
    /\ out = <<>>
    /\ exc = "none"
    /\ RULE_MAP = RULE_MAP_init
    /\ bp = BranchProtection
    /\ result = ""
    /\ query \in {<<"q">>, <<"'", "q">>}
    /\ params \in GqlParamSets
    /\ args = <<>>

\* gh_api_graphql(query, **params): build the argument list, run the tool
GQL_call ==
    /\ pc = "gql_start"
    /\ args' = gh_api_graphql_args(query, params)
    /\ \E outcome \in TransportOutcomes :
         IF outcome = "ok"
         THEN /\ pc' = "gql_done"
              /\ UNCHANGED exc
         ELSE Raise(outcome)
    /\ UNCHANGED <<mode, write, repo_data, row, group, repo, prots, rule_idx, calls,
                   out, RULE_MAP, bpvars, query, params>>

NextGQL == GQL_call

SpecGQL == InitGQL /\ [][NextGQL]_vars

\* number of single quotes among the first i characters of a text
Quotes(text, i) == Cardinality({k \in 1..i : text[k] = "'"})

\* e is text with one backslash put in front of each single quote
IsEscaped(e, text) ==
    /\ Len(e) = Len(text) + Quotes(text, Len(text))
    /\ \A i \in 1..Len(text) :
         LET p == i + Quotes(text, i) IN
           /\ e[p] = text[i]
           /\ text[i] = "'" => e[p - 1] = "\\"

\* a field reads `name=` followed by rest
FieldSplits(field, name, rest) ==
    /\ Len(field) = Len(name) + 1 + Len(rest)
    /\ SubSeq(field, 1, Len(name)) = name
    /\ field[Len(name) + 1] = "="
    /\ SubSeq(field, Len(name) + 2, Len(field)) = rest

\* what the claim says of the field sent for one value under one name
FieldAsClaimed(a, name, value) ==
    LET rest == SubSeq(a.field, Len(name) + 2, Len(a.field)) IN
      /\ FieldSplits(a.field, name, rest)
      /\ CASE value.t = "str" -> a.flag = "-f" /\ IsEscaped(rest, value.v)
           [] value.t = "bool" ->
                /\ a.flag = "-F"
                /\ rest = IF value.v THEN <<"t", "r", "u", "e">>
                          ELSE <<"f", "a", "l", "s", "e">>
           [] OTHER -> a.flag = "-F" /\ rest = int_repr(value.v)

FieldCount(p) == IF p.value.t = "list" THEN Len(p.value.v) ELSE 1

RECURSIVE FieldsBefore(_, _)
FieldsBefore(ps, k) ==
    IF k <= 1 THEN 1 ELSE FieldsBefore(ps, k - 1) + FieldCount(ps[k - 1])

\* C8: the query is the first field; then every parameter in order: a string as
\* a raw field (-f) with its quotes escaped, a boolean as a typed field (-F)
\* reading true or false, a list of N items as N fields named name[] in list
\* order, anything else as a typed field with its repr.
C8_ArgumentEncoding ==
    pc = "gql_done" =>
        /\ Len(args) = FieldsBefore(params, Len(params) + 1)
        /\ FieldAsClaimed(args[1], <<"q", "u", "e", "r", "y">>, Str(query))
        /\ \A k \in 1..Len(params) :
             LET p == params[k]
                 at == FieldsBefore(params, k)
             IN IF p.value.t = "list"
                THEN \A m \in 1..Len(p.value.v) :
                        FieldAsClaimed(args[at + m], p.name \o <<"[", "]">>,
                                       p.value.v[m])
                ELSE FieldAsClaimed(args[at + 1], p.name, p.value)

\* a call with a list of two items, one of them holding a quote, followed by a
\* boolean
C8_Witness ==
    /\ pc = "gql_done"
    /\ Len(params) = 2
    /\ params[1].value = PyList(<<Str(<<"'">>), PyInt(3)>>)
    /\ params[2].value = PyBool(TRUE)
    /\ Len(args) = 4

====
